---- MODULE Spec2Model ----
(***************************************************************************)
(* Video-call queue, agent registry and assignment engine of               *)
(* thronos-verifyid (backend/services/video_call_service.py and the        *)
(* request handlers of backend/routers/video_calls.py).                    *)
(*                                                                         *)
(* Every VideoCallService method runs one database transaction and is one  *)
(* atomic step.  A request handler that calls several service methods      *)
(* (add_to_queue and complete_call both go on to auto_assign_next_call,    *)
(* which itself calls get_available_agents, get_pending_calls and          *)
(* assign_agent, each awaited) is a process whose steps interleave with    *)
(* the steps of the other requests.                                        *)
(*                                                                         *)
(* The specifications share the actions and differ in the requests the     *)
(* environment sends:                                                      *)
(*   Spec          call lifecycle: one request slot, heartbeats online and *)
(*                 offline, manual assignment, start and completion;       *)
(*   SpecQueue     queue ordering: every priority, the clock moving, calls *)
(*                 of equal created_at possible;                           *)
(*   SpecArrival   as SpecQueue, every call created at a later clock       *)
(*                 reading than the one before it;                         *)
(*   SpecRace      concurrent requests of well-behaved clients (an agent   *)
(*                 heartbeats only while idle, only a call in progress is  *)
(*                 completed), so that what goes wrong is due to the       *)
(*                 interleaving of auto_assign_next_call alone;            *)
(*   SpecRegistry  heartbeats of every status, automatic assignment only;  *)
(*   SpecExpiry    heartbeats of every status while the clock moves;       *)
(*   SpecOverride  the requests of Spec with agents that only report       *)
(*                 online;                                                 *)
(*   SpecReference enqueue requests with verification ids that name no     *)
(*                 verification;                                           *)
(*   SpecSerial    two agents, the requests served one at a time: nothing  *)
(*                 interleaves with a handler between its awaits;          *)
(*   SpecBroadcast agents on the queue router's websocket endpoint while   *)
(*                 handlers broadcast new_call and call_completed;         *)
(*   SpecLive      enqueue requests and online heartbeats under weak       *)
(*                 fairness of the steps of a request that has started;    *)
(*   SpecCounter   the daily counter: automatic assignment, start and      *)
(*                 completion;                                             *)
(*   SpecLapse     the clock passing the liveness window while calls are   *)
(*                 assigned and started.                                   *)
(*                                                                         *)
(* The signaling router (backend/routers/video_call.py) keeps a registry   *)
(* of websockets by user id and the call sessions in memory; its handlers  *)
(* have no await between reading and writing them and are one step each:   *)
(*   SpecSignaling sessions between two different users: initiate,         *)
(*                 respond, end and the relay of offers, answers and       *)
(*                 candidates;                                             *)
(*   SpecRelay     as SpecSignaling, responses accept and reject only;     *)
(*   SpecSelfCall  as SpecRelay, a user may also call itself;              *)
(*   SpecChannels  reconnects of a registered user id and disconnects;     *)
(*   SpecStale     websockets that break before their endpoint notices;    *)
(*   SpecOutsider  a connected user that is no party of the session it     *)
(*                 names in its messages.                                  *)
(***************************************************************************)
EXTENDS Integers, Sequences, FiniteSets, TLC

\* ---- bounds of the model ----
MaxCalls == 2
NumAgents == 1
NumProcs == 2
MaxNow == 61
MaxCount == 1
MaxVerificationId == 2
NumUsers == 2
MaxSockets == 3
MaxSessions == 1

\* ---- program constants ----
LivenessWindow == 60
DefaultLimit == 50

NULL == -1

AgentIds == 1..NumAgents
Procs == 1..NumProcs
CallIds == 1..MaxCalls
\* the identities that connect to the signaling service
Users == 1..NumUsers
SocketIds == 1..MaxSockets
SessionIds == 1..MaxSessions
\* the verification ids a request may carry
VerificationIds == 1..MaxVerificationId
\* the rows of the table verifications: verification 1 exists
verifications == {1}
\* the clock moves by the liveness window, or by one second more
TickSteps == {LivenessWindow, LivenessWindow + 1}

CallPriority == {"urgent", "high", "normal", "low"}
CallStatus == {"pending", "assigned", "in_progress", "completed", "cancelled"}
AgentStatus == {"online", "offline", "busy", "in_call"}
\* the statuses an agent's client reports in the call lifecycle
HeartbeatStatus == {"online", "offline"}

VARIABLES calls, agents, now, pc, l_agent, l_call, last,
          sockets, delivered, active_connections, call_sessions,
          agent_connections, bc

\* the tables and the request handlers of the call queue
queue_vars == <<calls, agents, now, pc, l_agent, l_call>>

\* the websockets, the two connection managers and the call sessions
signaling_vars ==
    <<sockets, delivered, active_connections, call_sessions, agent_connections, bc>>

vars == <<calls, agents, now, pc, l_agent, l_call, last,
          sockets, delivered, active_connections, call_sessions,
          agent_connections, bc>>

Min(a, b) == IF a <= b THEN a ELSE b

\* priority_order.get(x.priority, 99)
priority_order(p) ==
    CASE p = "urgent" -> 0
      [] p = "high" -> 1
      [] p = "normal" -> 2
      [] p = "low" -> 3
      [] OTHER -> 99

\* ---- rows ----
VideoCallQueue(v, prio, t) ==
    [verification_id |-> v, priority |-> prio, status |-> "pending", created_at |-> t,
     agent_id |-> NULL, assigned_at |-> NULL, started_at |-> NULL,
     completed_at |-> NULL]

AgentAvailability(st, t) ==
    [status |-> st, last_heartbeat |-> t, current_call_id |-> NULL,
     total_calls_today |-> 0]

CallExists(q, c) == c \in 1..Len(q)
AgentExists(ag, a) == a \in DOMAIN ag

\* ---- get_pending_calls ----
PendingIds(q) == {c \in 1..Len(q) : q[c].status = "pending"}

\* the orders in which the store may return rows for
\* WHERE status = pending ORDER BY created_at (rows of equal created_at in any order)
PendingRowOrders(q) ==
    LET S == PendingIds(q)
        n == Cardinality(S)
    IN {s \in [1..n -> S] :
           /\ \A i, j \in 1..n : i # j => s[i] # s[j]
           /\ \A i, j \in 1..n : i < j => q[s[i]].created_at <= q[s[j]].created_at}

\* the sort key without the priority: key=lambda x: x.created_at
SortKeyLeq_created_at_only(q, x, y) == q[x].created_at <= q[y].created_at

\* x sorts no later than y under the key (priority_order, created_at)
SortKeyLeq(q, x, y) ==
    \/ priority_order(q[x].priority) < priority_order(q[y].priority)
    \/ /\ priority_order(q[x].priority) = priority_order(q[y].priority)
       /\ q[x].created_at <= q[y].created_at

\* stable insertion of x into the sorted sequence s (after every element not greater)
RECURSIVE InsertSorted(_, _, _)
InsertSorted(q, s, x) ==
    IF s = << >> THEN <<x>>
    ELSE IF SortKeyLeq(q, s[Len(s)], x) THEN Append(s, x)
    ELSE Append(InsertSorted(q, SubSeq(s, 1, Len(s) - 1), x), s[Len(s)])

\* sorted(calls, key=lambda x: (priority_order.get(x.priority, 99), x.created_at))
RECURSIVE sorted(_, _)
sorted(q, s) ==
    IF s = << >> THEN << >>
    ELSE InsertSorted(q, sorted(q, SubSeq(s, 1, Len(s) - 1)), s[Len(s)])

\* the statement: rows in store order, cut by .limit(limit), before the sort
LimitRows(rows, limit) == SubSeq(rows, 1, Min(limit, Len(rows)))

\* get_pending_calls(db, limit) for one store order of the rows
get_pending_calls(q, rows, limit) == sorted(q, LimitRows(rows, limit))

\* ---- get_available_agents ----
\* the filter without the heartbeat cutoff: status == ONLINE only
IsAvailable_status_only(ag, a, t) ==
    /\ AgentExists(ag, a)
    /\ ag[a].status = "online"

IsAvailable(ag, a, t) ==
    /\ AgentExists(ag, a)
    /\ ag[a].status = "online"
    /\ ag[a].last_heartbeat >= t - LivenessWindow

get_available_agents(ag, t) == {a \in DOMAIN ag : IsAvailable(ag, a, t)}

\* the rows that ORDER BY total_calls_today may put first
AvailableHeads(ag, t) ==
    {a \in get_available_agents(ag, t) :
        \A b \in get_available_agents(ag, t) :
            ag[a].total_calls_today <= ag[b].total_calls_today}

\* ---- assign_agent ----
\* assign_agent without the check of the status
assign_agent_ok_any_status(q, c) == CallExists(q, c)

assign_agent_ok(q, c) == CallExists(q, c) /\ q[c].status = "pending"

assign_agent_calls(q, c, a, t) ==
    [q EXCEPT ![c].agent_id = a, ![c].status = "assigned", ![c].assigned_at = t]

\* assign_agent that commits the call without the update of the agent
assign_agent_agents_not_written(ag, c, a) == ag

assign_agent_agents(ag, c, a) ==
    IF AgentExists(ag, a)
    THEN [ag EXCEPT ![a].status = "busy", ![a].current_call_id = c]
    ELSE ag

\* ---- start_call ----
\* start_call without the check of the status
start_call_ok_any_status(q, c) == CallExists(q, c)

start_call_ok(q, c) == CallExists(q, c) /\ q[c].status = "assigned"

start_call_calls(q, c, t) ==
    [q EXCEPT ![c].status = "in_progress", ![c].started_at = t]

start_call_agents(q, ag, c) ==
    IF q[c].agent_id # NULL /\ AgentExists(ag, q[c].agent_id)
    THEN [ag EXCEPT ![q[c].agent_id].status = "in_call"]
    ELSE ag

\* ---- complete_call ----
complete_call_ok(q, c) == CallExists(q, c)

complete_call_calls(q, c, t) ==
    [q EXCEPT ![c].status = "completed", ![c].completed_at = t]

\* complete_call that frees the agent but keeps its current_call_id
complete_call_agents_keeps_call(q, ag, c) ==
    IF q[c].agent_id # NULL /\ AgentExists(ag, q[c].agent_id)
    THEN [ag EXCEPT ![q[c].agent_id].status = "online",
                    ![q[c].agent_id].total_calls_today = @ + 1]
    ELSE ag

complete_call_agents(q, ag, c) ==
    IF q[c].agent_id # NULL /\ AgentExists(ag, q[c].agent_id)
    THEN [ag EXCEPT ![q[c].agent_id].status = "online",
                    ![q[c].agent_id].current_call_id = NULL,
                    ![q[c].agent_id].total_calls_today = @ + 1]
    ELSE ag

\* ---- update_agent_status ----
\* update_agent_status that refreshes the heartbeat of a known agent but
\* keeps its stored status
update_agent_status_agents_keeps_status(ag, a, st, t) ==
    IF AgentExists(ag, a)
    THEN [ag EXCEPT ![a].last_heartbeat = t]
    ELSE [x \in DOMAIN ag \cup {a} |->
            IF x = a THEN AgentAvailability(st, t) ELSE ag[x]]

update_agent_status_agents(ag, a, st, t) ==
    IF AgentExists(ag, a)
    THEN [ag EXCEPT ![a].status = st, ![a].last_heartbeat = t]
    ELSE [x \in DOMAIN ag \cup {a} |->
            IF x = a THEN AgentAvailability(st, t) ELSE ag[x]]

\* ---- the response of the last finished service call ----
\* result: "ok"; the ValueError raised ("not_found", "not_pending",
\* "not_assigned"; the handlers answer 400); "error" (another exception,
\* answered 500); "none" (auto_assign_next_call returned None)
Op(op, res) == [op |-> op, result |-> res]

\* no broadcast is iterating the registry of the queue router
NoBroadcast == [message |-> "none", used |-> 0, visited |-> {}]

Init ==
    /\ calls = << >>
    /\ agents = [x \in {} |-> NULL]
    /\ now = 0
    /\ pc = [p \in Procs |-> "idle"]
    /\ l_agent = [p \in Procs |-> NULL]
    /\ l_call = [p \in Procs |-> NULL]
    /\ last = Op("none", "none")
    /\ sockets = << >>
    /\ delivered = {}
    /\ active_connections = [x \in {} |-> NULL]
    /\ call_sessions = << >>
    /\ agent_connections = [x \in {} |-> NULL]
    /\ bc = [p \in Procs |-> NoBroadcast]

\* time passes, with a sweep that takes expired agents offline and returns
\* their live calls to the queue
Tick_sweeps_expired ==
    /\ \E d \in TickSteps : now + d <= MaxNow /\ now' = now + d
    /\ agents' = [a \in DOMAIN agents |->
                     IF agents[a].last_heartbeat < now' - LivenessWindow
                     THEN [agents[a] EXCEPT !.status = "offline", !.current_call_id = NULL]
                     ELSE agents[a]]
    /\ calls' = [c \in 1..Len(calls) |->
                    IF /\ calls[c].status \in {"assigned", "in_progress"}
                       /\ calls[c].agent_id \in DOMAIN agents
                       /\ agents[calls[c].agent_id].last_heartbeat < now' - LivenessWindow
                    THEN [calls[c] EXCEPT !.status = "pending", !.agent_id = NULL]
                    ELSE calls[c]]
    /\ UNCHANGED <<pc, l_agent, l_call, last>>
    /\ UNCHANGED signaling_vars

\* time passes
Tick ==
    /\ \E d \in TickSteps : now + d <= MaxNow /\ now' = now + d
    /\ UNCHANGED <<calls, agents, pc, l_agent, l_call, last>>
    /\ UNCHANGED signaling_vars

\* connection.send_json(message) of a broadcast: what it delivers; an
\* exception of send_json is logged and nothing else happens
broadcast_send(conns, socks, message, k) ==
    IF socks[conns[k]].state = "open"
    THEN {[ws |-> conns[k], to |-> k, type |-> message, session_id |-> NULL, from |-> NULL]}
    ELSE {}

\* manager.broadcast(message) up to its first await: the iteration over
\* active_connections.items() starts and remembers the size of the dict;
\* with no connection registered the loop is over at once and the handler
\* goes on to auto_assign_next_call, otherwise send_json to the first
\* connection is awaited
broadcast(p, message) ==
    IF DOMAIN agent_connections = {}
    THEN /\ pc' = [pc EXCEPT ![p] = "auto_agents"]
         /\ UNCHANGED <<bc, delivered>>
    ELSE /\ pc' = [pc EXCEPT ![p] = "broadcast"]
         /\ \E k \in DOMAIN agent_connections :
               /\ bc' = [bc EXCEPT ![p] = [message |-> message,
                                           used |-> Cardinality(DOMAIN agent_connections),
                                           visited |-> {k}]]
               /\ delivered' = broadcast_send(agent_connections, sockets, message, k)

\* POST /queue that answers after the commit, without auto_assign_next_call
add_to_queue_without_auto_assign(p, prio) ==
    /\ pc[p] = "idle"
    /\ Len(calls) < MaxCalls
    /\ \E v \in verifications : calls' = Append(calls, VideoCallQueue(v, prio, now))
    /\ last' = Op("add_to_queue", "ok")
    /\ UNCHANGED <<agents, now, pc, l_agent, l_call>>
    /\ UNCHANGED signaling_vars

\* POST /queue: add_to_queue commits the row, then the handler broadcasts
\* new_call and goes on to auto_assign_next_call
add_to_queue(p, prio) ==
    /\ pc[p] = "idle"
    /\ Len(calls) < MaxCalls
    /\ \E v \in verifications : calls' = Append(calls, VideoCallQueue(v, prio, now))
    /\ broadcast(p, "new_call")
    /\ last' = Op("add_to_queue", "ok")
    /\ UNCHANGED <<agents, now, l_agent, l_call>>
    /\ UNCHANGED <<sockets, active_connections, call_sessions, agent_connections>>

\* POST /queue with a verification_id that names no row of verifications.
\* add_to_queue does not look the verification up; the row carries the
\* foreign key verifications.id, and what the commit does depends on the
\* store: it refuses the row (IntegrityError, rollback, the handler answers
\* 500) or, where foreign keys are not enforced, it stores the row and the
\* handler goes on as for any other call
add_to_queue_unknown_verification(p, v, prio) ==
    /\ pc[p] = "idle"
    /\ Len(calls) < MaxCalls
    /\ v \notin verifications
    /\ \/ /\ last' = Op("add_to_queue", "error")
          /\ UNCHANGED <<calls, pc, bc, delivered>>
       \/ /\ calls' = Append(calls, VideoCallQueue(v, prio, now))
          /\ broadcast(p, "new_call")
          /\ last' = Op("add_to_queue", "ok")
    /\ UNCHANGED <<agents, now, l_agent, l_call>>
    /\ UNCHANGED <<sockets, active_connections, call_sessions, agent_connections>>

\* the ValueError of assign_agent
assign_agent_error(q, c) == IF CallExists(q, c) THEN "not_pending" ELSE "not_found"

\* POST /{call_id}/assign
assign_agent(c, a) ==
    /\ IF assign_agent_ok(calls, c)
       THEN /\ calls' = assign_agent_calls(calls, c, a, now)
            /\ agents' = assign_agent_agents(agents, c, a)
            /\ last' = Op("assign_agent", "ok")
       ELSE /\ UNCHANGED <<calls, agents>>
            /\ last' = Op("assign_agent", assign_agent_error(calls, c))
    /\ UNCHANGED <<now, pc, l_agent, l_call>>
    /\ UNCHANGED signaling_vars

\* the ValueError of start_call
start_call_error(q, c) == IF CallExists(q, c) THEN "not_assigned" ELSE "not_found"

\* POST /{call_id}/start
start_call(c) ==
    /\ IF start_call_ok(calls, c)
       THEN /\ calls' = start_call_calls(calls, c, now)
            /\ agents' = start_call_agents(calls, agents, c)
            /\ last' = Op("start_call", "ok")
       ELSE /\ UNCHANGED <<calls, agents>>
            /\ last' = Op("start_call", start_call_error(calls, c))
    /\ UNCHANGED <<now, pc, l_agent, l_call>>
    /\ UNCHANGED signaling_vars

\* the daily counter stays within the bound of the model
CountBelowMax(c) ==
    (CallExists(calls, c) /\ calls[c].agent_id # NULL
        /\ AgentExists(agents, calls[c].agent_id))
    => agents[calls[c].agent_id].total_calls_today < MaxCount

\* POST /{call_id}/complete that answers after the commit, without
\* auto_assign_next_call
complete_call_without_auto_assign(p, c) ==
    /\ pc[p] = "idle"
    /\ CountBelowMax(c)
    /\ IF complete_call_ok(calls, c)
       THEN /\ calls' = complete_call_calls(calls, c, now)
            /\ agents' = complete_call_agents(calls, agents, c)
            /\ last' = Op("complete_call", "ok")
       ELSE /\ UNCHANGED <<calls, agents>>
            /\ last' = Op("complete_call", "not_found")
    /\ UNCHANGED <<now, pc, l_agent, l_call>>
    /\ UNCHANGED signaling_vars

\* POST /{call_id}/complete: complete_call commits, then the handler
\* broadcasts call_completed and goes on to auto_assign_next_call; a
\* ValueError ends the request with 400
complete_call(p, c) ==
    /\ pc[p] = "idle"
    /\ CountBelowMax(c)
    /\ IF complete_call_ok(calls, c)
       THEN /\ calls' = complete_call_calls(calls, c, now)
            /\ agents' = complete_call_agents(calls, agents, c)
            /\ broadcast(p, "call_completed")
            /\ last' = Op("complete_call", "ok")
       ELSE /\ UNCHANGED <<calls, agents, pc, bc, delivered>>
            /\ last' = Op("complete_call", "not_found")
    /\ UNCHANGED <<now, l_agent, l_call>>
    /\ UNCHANGED <<sockets, active_connections, call_sessions, agent_connections>>

\* manager.broadcast after an awaited send_json: the iterator first compares
\* the size of the dict with the size it remembered and raises RuntimeError
\* when they differ, which no handler of the loop catches: the request ends
\* with 500 and auto_assign_next_call is not reached; otherwise the loop is
\* over when every key has been visited, or send_json to the next
\* connection is awaited
broadcast_next(p) ==
    /\ pc[p] = "broadcast"
    /\ IF Cardinality(DOMAIN agent_connections) # bc[p].used
       THEN /\ pc' = [pc EXCEPT ![p] = "idle"]
            /\ bc' = [bc EXCEPT ![p] = NoBroadcast]
            /\ delivered' = {}
            /\ last' = Op("broadcast", "error")
       ELSE IF DOMAIN agent_connections \ bc[p].visited = {}
       THEN /\ pc' = [pc EXCEPT ![p] = "auto_agents"]
            /\ bc' = [bc EXCEPT ![p] = NoBroadcast]
            /\ delivered' = {}
            /\ last' = Op("broadcast", "ok")
       ELSE /\ \E k \in DOMAIN agent_connections \ bc[p].visited :
                  /\ bc' = [bc EXCEPT ![p].visited = @ \cup {k}]
                  /\ delivered' = broadcast_send(agent_connections, sockets,
                                                 bc[p].message, k)
            /\ UNCHANGED <<pc, last>>
    /\ UNCHANGED <<calls, agents, now, l_agent, l_call>>
    /\ UNCHANGED <<sockets, active_connections, call_sessions, agent_connections>>

\* POST /agents/status
update_agent_status(a, st) ==
    /\ agents' = update_agent_status_agents(agents, a, st, now)
    /\ last' = Op("update_agent_status", "ok")
    /\ UNCHANGED <<calls, now, pc, l_agent, l_call>>
    /\ UNCHANGED signaling_vars

\* auto_assign_next_call, first await: get_available_agents
auto_get_available_agents(p) ==
    /\ pc[p] = "auto_agents"
    /\ IF get_available_agents(agents, now) = {}
       THEN /\ pc' = [pc EXCEPT ![p] = "idle"]
            /\ last' = Op("auto_assign_next_call", "none")
            /\ UNCHANGED l_agent
       ELSE /\ \E a \in AvailableHeads(agents, now) :
                  l_agent' = [l_agent EXCEPT ![p] = a]
            /\ pc' = [pc EXCEPT ![p] = "auto_pending"]
            /\ UNCHANGED last
    /\ UNCHANGED <<calls, agents, now, l_call>>
    /\ UNCHANGED signaling_vars

\* auto_assign_next_call, second await: get_pending_calls(db, limit=1)
auto_get_pending_calls(p) ==
    /\ pc[p] = "auto_pending"
    /\ IF PendingIds(calls) = {}
       THEN /\ pc' = [pc EXCEPT ![p] = "idle"]
            /\ l_agent' = [l_agent EXCEPT ![p] = NULL]
            /\ last' = Op("auto_assign_next_call", "none")
            /\ UNCHANGED l_call
       ELSE /\ \E rows \in PendingRowOrders(calls) :
                  l_call' = [l_call EXCEPT ![p] = get_pending_calls(calls, rows, 1)[1]]
            /\ pc' = [pc EXCEPT ![p] = "auto_assign"]
            /\ UNCHANGED <<l_agent, last>>
    /\ UNCHANGED <<calls, agents, now>>
    /\ UNCHANGED signaling_vars

\* auto_assign_next_call, third await: assign_agent(db, call.id, agent.agent_id);
\* its ValueError is caught and None returned
auto_assign_agent(p) ==
    /\ pc[p] = "auto_assign"
    /\ IF assign_agent_ok(calls, l_call[p])
       THEN /\ calls' = assign_agent_calls(calls, l_call[p], l_agent[p], now)
            /\ agents' = assign_agent_agents(agents, l_call[p], l_agent[p])
            /\ last' = Op("auto_assign_next_call", "ok")
       ELSE /\ UNCHANGED <<calls, agents>>
            /\ last' = Op("auto_assign_next_call", "none")
    /\ pc' = [pc EXCEPT ![p] = "idle"]
    /\ l_agent' = [l_agent EXCEPT ![p] = NULL]
    /\ l_call' = [l_call EXCEPT ![p] = NULL]
    /\ UNCHANGED now
    /\ UNCHANGED signaling_vars

\* ---- Spec: the call lifecycle ----
Next ==
    \/ add_to_queue(1, "normal")
    \/ \E c \in CallIds, a \in AgentIds : assign_agent(c, a)
    \/ \E c \in CallIds : start_call(c)
    \/ \E c \in CallIds : complete_call(1, c)
    \/ \E a \in AgentIds, st \in HeartbeatStatus : update_agent_status(a, st)
    \/ auto_get_available_agents(1)
    \/ auto_get_pending_calls(1)
    \/ auto_assign_agent(1)

Spec == Init /\ [][Next]_vars

\* ======================= signaling (routers/video_call.py) =======================

\* the signaling messages a websocket client sends to be relayed
RelayTypes == {"offer", "answer", "ice_candidate"}
\* the actions a client may put in a respond request
RespondActions == {"accept", "reject", "hold"}
SessionStatus == {"pending", "active", "ended"}

\* a websocket accepted by the endpoint ep for the path parameter user_id:
\* open, broken (send_json raises, the endpoint has not seen the disconnect
\* yet) or closed (the endpoint has left its receive loop)
WebSocket(ep, u) == [endpoint |-> ep, user_id |-> u, state |-> "open"]

CallSession(caller, callee, t) ==
    [caller_id |-> caller, callee_id |-> callee, status |-> "pending",
     created_at |-> t, ended_at |-> NULL]

\* a message as it arrives on websocket ws
Delivery(ws, to, type, sid, from) ==
    [ws |-> ws, to |-> to, type |-> type, session_id |-> sid, from |-> from]

\* ---- ConnectionManager ----
is_user_online(conns, u) == u \in DOMAIN conns

\* connect that keeps the websocket already registered for user_id
connect_keeps_existing(conns, u, ws) ==
    [x \in DOMAIN conns \cup {u} |-> IF x \in DOMAIN conns THEN conns[x] ELSE ws]

\* self.active_connections[user_id] = websocket
connect(conns, u, ws) ==
    [x \in DOMAIN conns \cup {u} |-> IF x = u THEN ws ELSE conns[x]]

\* disconnect that drops the whole registry
disconnect_clears_all(conns, u) == [x \in {} |-> NULL]

\* del self.active_connections[user_id], when present
disconnect(conns, u) == [x \in DOMAIN conns \ {u} |-> conns[x]]

\* send_json on the websocket succeeds
SendSucceeds(socks, ws) == socks[ws].state = "open"

\* send_personal_message: what it delivers; an exception of send_json is
\* logged and nothing else happens
send_personal_message(conns, socks, type, sid, from, u) ==
    IF is_user_online(conns, u) /\ SendSucceeds(socks, conns[u])
    THEN {Delivery(conns[u], u, type, sid, from)}
    ELSE {}

get_call_session(sessions, sid) == sid \in 1..Len(sessions)

\* update_call_status that finds no session to update
update_call_status_not_written(sessions, sid, st, t) == sessions

update_call_status(sessions, sid, st, t) ==
    IF st = "ended"
    THEN [sessions EXCEPT ![sid].status = st, ![sid].ended_at = t]
    ELSE [sessions EXCEPT ![sid].status = st]

\* ---- the websocket endpoint /ws/{user_id} ----
\* manager.connect: the websocket is accepted and registered for user_id
websocket_connect(u) ==
    /\ Len(sockets) < MaxSockets
    /\ sockets' = Append(sockets, WebSocket("video-call", u))
    /\ active_connections' = connect(active_connections, u, Len(sockets) + 1)
    /\ delivered' = {}
    /\ last' = Op("connect", "ok")
    /\ UNCHANGED <<call_sessions, agent_connections, bc>>
    /\ UNCHANGED queue_vars

\* the transport of websocket ws is lost; its endpoint has not noticed yet
websocket_breaks(ws) ==
    /\ ws \in 1..Len(sockets)
    /\ sockets[ws].state = "open"
    /\ sockets' = [sockets EXCEPT ![ws].state = "broken"]
    /\ delivered' = {}
    /\ UNCHANGED <<active_connections, call_sessions, agent_connections, bc, last>>
    /\ UNCHANGED queue_vars

\* receive_json raises WebSocketDisconnect: manager.disconnect(user_id)
websocket_disconnect(ws) ==
    /\ ws \in 1..Len(sockets)
    /\ sockets[ws].endpoint = "video-call"
    /\ sockets[ws].state # "closed"
    /\ sockets' = [sockets EXCEPT ![ws].state = "closed"]
    /\ active_connections' = disconnect(active_connections, sockets[ws].user_id)
    /\ delivered' = {}
    /\ last' = Op("disconnect", "ok")
    /\ UNCHANGED <<call_sessions, agent_connections, bc>>
    /\ UNCHANGED queue_vars

\* the queue router's websocket endpoint /ws/{user_id}: manager.connect
agent_websocket_connect(u) ==
    /\ Len(sockets) < MaxSockets
    /\ sockets' = Append(sockets, WebSocket("video-calls", u))
    /\ agent_connections' = connect(agent_connections, u, Len(sockets) + 1)
    /\ delivered' = {}
    /\ last' = Op("connect", "ok")
    /\ UNCHANGED <<active_connections, call_sessions, bc>>
    /\ UNCHANGED queue_vars

\* its receive loop raises: manager.disconnect(user_id)
agent_websocket_disconnect(ws) ==
    /\ ws \in 1..Len(sockets)
    /\ sockets[ws].endpoint = "video-calls"
    /\ sockets[ws].state # "closed"
    /\ sockets' = [sockets EXCEPT ![ws].state = "closed"]
    /\ agent_connections' = disconnect(agent_connections, sockets[ws].user_id)
    /\ delivered' = {}
    /\ last' = Op("disconnect", "ok")
    /\ UNCHANGED <<active_connections, call_sessions, bc>>
    /\ UNCHANGED queue_vars

\* the peer a relayed message of the given type goes to
target_user(session, type, u) ==
    IF type = "answer"
    THEN (IF session.callee_id = u THEN session.caller_id ELSE session.callee_id)
    ELSE (IF session.caller_id = u THEN session.callee_id ELSE session.caller_id)

\* the receive loop of websocket ws reads an offer, answer or ice_candidate
\* that names session sid
websocket_relay(ws, type, sid) ==
    /\ ws \in 1..Len(sockets)
    /\ sockets[ws].endpoint = "video-call"
    /\ sockets[ws].state = "open"
    /\ IF get_call_session(call_sessions, sid)
       THEN /\ delivered' = send_personal_message(active_connections, sockets, type, sid,
                                 sockets[ws].user_id,
                                 target_user(call_sessions[sid], type, sockets[ws].user_id))
            /\ last' = Op(type, "ok")
       ELSE /\ delivered' = {}
            /\ last' = Op(type, "none")
    /\ UNCHANGED <<sockets, active_connections, call_sessions, agent_connections, bc>>
    /\ UNCHANGED queue_vars

\* ---- POST /initiate ----
\* initiate_call without the check that the callee is online
initiate_call_without_callee_check(u, callee) ==
    /\ Len(call_sessions) < MaxSessions
    /\ IF ~ is_user_online(active_connections, u)
       THEN /\ last' = Op("initiate_call", "caller_not_online")
            /\ delivered' = {}
            /\ UNCHANGED call_sessions
       ELSE /\ call_sessions' = Append(call_sessions, CallSession(u, callee, now))
            /\ delivered' = send_personal_message(active_connections, sockets,
                                 "incoming_call", Len(call_sessions) + 1, u, callee)
            /\ last' = Op("initiate_call", "ok")
    /\ UNCHANGED <<sockets, active_connections, agent_connections, bc>>
    /\ UNCHANGED queue_vars

initiate_call(u, callee) ==
    /\ Len(call_sessions) < MaxSessions
    /\ IF ~ is_user_online(active_connections, u)
       THEN /\ last' = Op("initiate_call", "caller_not_online")
            /\ delivered' = {}
            /\ UNCHANGED call_sessions
       ELSE IF ~ is_user_online(active_connections, callee)
       THEN /\ last' = Op("initiate_call", "callee_not_online")
            /\ delivered' = {}
            /\ UNCHANGED call_sessions
       ELSE /\ call_sessions' = Append(call_sessions, CallSession(u, callee, now))
            /\ delivered' = send_personal_message(active_connections, sockets,
                                 "incoming_call", Len(call_sessions) + 1, u, callee)
            /\ last' = Op("initiate_call", "ok")
    /\ UNCHANGED <<sockets, active_connections, agent_connections, bc>>
    /\ UNCHANGED queue_vars

\* ---- POST /respond ----
\* respond_to_call without the check that the requester is the callee
respond_to_call_without_callee_check(u, sid, action) ==
    /\ IF ~ get_call_session(call_sessions, sid)
       THEN /\ last' = Op("respond_to_call", "not_found")
            /\ delivered' = {}
            /\ UNCHANGED call_sessions
       ELSE IF action = "accept"
       THEN /\ call_sessions' = update_call_status(call_sessions, sid, "active", now)
            /\ delivered' = send_personal_message(active_connections, sockets,
                                 "call_accepted", sid, u, call_sessions[sid].caller_id)
            /\ last' = Op("respond_to_call", "ok")
       ELSE IF action = "reject"
       THEN /\ call_sessions' = update_call_status(call_sessions, sid, "ended", now)
            /\ delivered' = send_personal_message(active_connections, sockets,
                                 "call_rejected", sid, u, call_sessions[sid].caller_id)
            /\ last' = Op("respond_to_call", "ok")
       ELSE /\ last' = Op("respond_to_call", "invalid_action")
            /\ delivered' = {}
            /\ UNCHANGED call_sessions
    /\ UNCHANGED <<sockets, active_connections, agent_connections, bc>>
    /\ UNCHANGED queue_vars

respond_to_call(u, sid, action) ==
    /\ IF ~ get_call_session(call_sessions, sid)
       THEN /\ last' = Op("respond_to_call", "not_found")
            /\ delivered' = {}
            /\ UNCHANGED call_sessions
       ELSE IF call_sessions[sid].callee_id # u
       THEN /\ last' = Op("respond_to_call", "unauthorized")
            /\ delivered' = {}
            /\ UNCHANGED call_sessions
       ELSE IF action = "accept"
       THEN /\ call_sessions' = update_call_status(call_sessions, sid, "active", now)
            /\ delivered' = send_personal_message(active_connections, sockets,
                                 "call_accepted", sid, u, call_sessions[sid].caller_id)
            /\ last' = Op("respond_to_call", "ok")
       ELSE IF action = "reject"
       THEN /\ call_sessions' = update_call_status(call_sessions, sid, "ended", now)
            /\ delivered' = send_personal_message(active_connections, sockets,
                                 "call_rejected", sid, u, call_sessions[sid].caller_id)
            /\ last' = Op("respond_to_call", "ok")
       ELSE /\ last' = Op("respond_to_call", "invalid_action")
            /\ delivered' = {}
            /\ UNCHANGED call_sessions
    /\ UNCHANGED <<sockets, active_connections, agent_connections, bc>>
    /\ UNCHANGED queue_vars

\* ---- POST /end/{session_id} ----
other_user_id(session, u) ==
    IF session.caller_id = u THEN session.callee_id ELSE session.caller_id

end_call(u, sid) ==
    /\ IF ~ get_call_session(call_sessions, sid)
       THEN /\ last' = Op("end_call", "not_found")
            /\ delivered' = {}
            /\ UNCHANGED call_sessions
       ELSE IF call_sessions[sid].caller_id # u /\ call_sessions[sid].callee_id # u
       THEN /\ last' = Op("end_call", "unauthorized")
            /\ delivered' = {}
            /\ UNCHANGED call_sessions
       ELSE /\ call_sessions' = update_call_status(call_sessions, sid, "ended", now)
            /\ delivered' = send_personal_message(active_connections, sockets,
                                 "call_ended", sid, u,
                                 other_user_id(call_sessions[sid], u))
            /\ last' = Op("end_call", "ok")
    /\ UNCHANGED <<sockets, active_connections, agent_connections, bc>>
    /\ UNCHANGED queue_vars

\* ---- SpecSignaling: sessions between two different connected users ----
NextSignaling ==
    \/ \E u \in Users : ~ is_user_online(active_connections, u) /\ websocket_connect(u)
    \/ \E u, callee \in Users : u # callee /\ initiate_call(u, callee)
    \/ \E u \in Users, sid \in SessionIds, action \in RespondActions :
          respond_to_call(u, sid, action)
    \/ \E u \in Users, sid \in SessionIds : end_call(u, sid)
    \/ \E ws \in SocketIds, type \in RelayTypes, sid \in SessionIds :
          websocket_relay(ws, type, sid)

SpecSignaling == Init /\ [][NextSignaling]_vars

\* ---- SpecRelay: the relay of offers, answers and candidates ----
NextRelay ==
    \/ \E u \in Users : ~ is_user_online(active_connections, u) /\ websocket_connect(u)
    \/ \E u, callee \in Users : u # callee /\ initiate_call(u, callee)
    \/ \E u \in Users, sid \in SessionIds, action \in {"accept", "reject"} :
          respond_to_call(u, sid, action)
    \/ \E u \in Users, sid \in SessionIds : end_call(u, sid)
    \/ \E ws \in SocketIds, type \in RelayTypes, sid \in SessionIds :
          websocket_relay(ws, type, sid)

SpecRelay == Init /\ [][NextRelay]_vars

\* ---- SpecSelfCall: as SpecRelay, a user may also call itself ----
NextSelfCall ==
    \/ \E u \in Users : ~ is_user_online(active_connections, u) /\ websocket_connect(u)
    \/ \E u, callee \in Users : initiate_call(u, callee)
    \/ \E u \in Users, sid \in SessionIds, action \in {"accept", "reject"} :
          respond_to_call(u, sid, action)
    \/ \E u \in Users, sid \in SessionIds : end_call(u, sid)
    \/ \E ws \in SocketIds, type \in RelayTypes, sid \in SessionIds :
          websocket_relay(ws, type, sid)

SpecSelfCall == Init /\ [][NextSelfCall]_vars

\* ---- SpecChannels ----
\* The registry under reconnects: a client may connect again for a user id
\* that is registered, and an endpoint unregisters its user id when its
\* websocket disconnects.
NextChannels ==
    \/ \E u \in Users : websocket_connect(u)
    \/ \E ws \in SocketIds : websocket_disconnect(ws)
    \/ \E u, callee \in Users : u # callee /\ initiate_call(u, callee)

SpecChannels == Init /\ [][NextChannels]_vars

\* ---- SpecStale ----
\* Lost transports: a websocket may break before its endpoint notices, and
\* messages are sent to its user in between.
NextStale ==
    \/ \E u \in Users : ~ is_user_online(active_connections, u) /\ websocket_connect(u)
    \/ \E ws \in SocketIds : websocket_breaks(ws)
    \/ \E ws \in SocketIds : websocket_disconnect(ws)
    \/ \E u, callee \in Users : u # callee /\ initiate_call(u, callee)
    \/ \E u \in Users, sid \in SessionIds : end_call(u, sid)

SpecStale == Init /\ [][NextStale]_vars

\* ---- SpecOutsider ----
\* One more user id than the users that call each other: the websocket
\* endpoint takes the user id from the path of the request, and a client
\* that is no party of a session sends messages naming it.
RelayUsers == 1..(NumUsers + 1)

NextOutsider ==
    \/ \E u \in RelayUsers : ~ is_user_online(active_connections, u) /\ websocket_connect(u)
    \/ \E u, callee \in Users : u # callee /\ initiate_call(u, callee)
    \/ \E u \in RelayUsers, sid \in SessionIds, action \in {"accept", "reject"} :
          respond_to_call(u, sid, action)
    \/ \E ws \in SocketIds, type \in RelayTypes, sid \in SessionIds :
          websocket_relay(ws, type, sid)

SpecOutsider == Init /\ [][NextOutsider]_vars

\* ---- SpecBroadcast ----
\* The queue router with agents on its websocket endpoint: they connect,
\* lose their transport and disconnect while handlers broadcast.
NextBroadcast ==
    \/ \E u \in Users : ~ is_user_online(agent_connections, u) /\ agent_websocket_connect(u)
    \/ \E ws \in SocketIds : websocket_breaks(ws)
    \/ \E ws \in SocketIds : agent_websocket_disconnect(ws)
    \/ add_to_queue(1, "normal")
    \/ \E c \in CallIds : complete_call(1, c)
    \/ broadcast_next(1)
    \/ \E a \in AgentIds : update_agent_status(a, "online")
    \/ auto_get_available_agents(1)
    \/ auto_get_pending_calls(1)
    \/ auto_assign_agent(1)

SpecBroadcast == Init /\ [][NextBroadcast]_vars

\* ---- SpecLive ----
\* Progress of a pending call: enqueue requests and heartbeats that report
\* online; the clock stands still, so a heartbeat once sent stays fresh.  A request that has started is served to its end
\* (weak fairness of the steps of auto_assign_next_call) and agents keep
\* sending heartbeats; no client is obliged to send a request.
NextLive ==
    \/ \E p \in Procs, prio \in CallPriority : add_to_queue(p, prio)
    \/ \E a \in AgentIds : update_agent_status(a, "online")
    \/ \E p \in Procs : auto_get_available_agents(p)
    \/ \E p \in Procs : auto_get_pending_calls(p)
    \/ \E p \in Procs : auto_assign_agent(p)

FairLive ==
    /\ \A p \in Procs :
          /\ WF_vars(auto_get_available_agents(p))
          /\ WF_vars(auto_get_pending_calls(p))
          /\ WF_vars(auto_assign_agent(p))
    /\ \A a \in AgentIds : WF_vars(update_agent_status(a, "online"))

SpecLive == Init /\ [][NextLive]_vars /\ FairLive

\* ---- SpecCounter ----
\* The daily counter: agents that report online, calls bound by
\* auto_assign_next_call only, started or not, and completed.
NextCounter ==
    \/ add_to_queue(1, "normal")
    \/ \E a \in AgentIds : update_agent_status(a, "online")
    \/ \E c \in CallIds : start_call(c)
    \/ \E c \in CallIds : complete_call(1, c)
    \/ auto_get_available_agents(1)
    \/ auto_get_pending_calls(1)
    \/ auto_assign_agent(1)

SpecCounter == Init /\ [][NextCounter]_vars

\* ---- SpecLapse ----
\* Heartbeats that lapse while calls are live: the clock moves, agents
\* report online, calls are bound by auto_assign_next_call and started.
NextLapse ==
    \/ Tick
    \/ add_to_queue(1, "normal")
    \/ \E a \in AgentIds : update_agent_status(a, "online")
    \/ \E c \in CallIds : start_call(c)
    \/ auto_get_available_agents(1)
    \/ auto_get_pending_calls(1)
    \/ auto_assign_agent(1)

SpecLapse == Init /\ [][NextLapse]_vars

\* ---- SpecQueue: the ordering of the queue ----
NextQueue ==
    \/ Tick
    \/ \E prio \in CallPriority : add_to_queue(1, prio)
    \/ \E c \in CallIds : complete_call(1, c)
    \/ update_agent_status(1, "online")
    \/ auto_get_available_agents(1)
    \/ auto_get_pending_calls(1)
    \/ auto_assign_agent(1)

SpecQueue == Init /\ [][NextQueue]_vars

\* ---- SpecArrival: the queue when no two calls carry the same created_at ----
ArrivesLater == IF Len(calls) = 0 THEN TRUE ELSE calls[Len(calls)].created_at < now

NextArrival ==
    \/ Tick
    \/ \E prio \in CallPriority : ArrivesLater /\ add_to_queue(1, prio)
    \/ update_agent_status(1, "online")
    \/ auto_get_available_agents(1)
    \/ auto_get_pending_calls(1)
    \/ auto_assign_agent(1)

SpecArrival == Init /\ [][NextArrival]_vars

\* ---- SpecRace: concurrent requests of well-behaved clients ----
AgentIdle(a) == IF AgentExists(agents, a) THEN agents[a].current_call_id = NULL ELSE TRUE

CallInProgress(c) == CallExists(calls, c) /\ calls[c].status = "in_progress"

NextRace ==
    \/ Tick
    \/ \E p \in Procs : ArrivesLater /\ add_to_queue(p, "normal")
    \/ \E c \in CallIds : start_call(c)
    \/ \E p \in Procs, c \in CallIds : CallInProgress(c) /\ complete_call(p, c)
    \/ \E a \in AgentIds : AgentIdle(a) /\ update_agent_status(a, "online")
    \/ \E p \in Procs : auto_get_available_agents(p)
    \/ \E p \in Procs : auto_get_pending_calls(p)
    \/ \E p \in Procs : auto_assign_agent(p)

SpecRace == Init /\ [][NextRace]_vars

\* ---- SpecRegistry: heartbeats of every status, calls assigned automatically ----
NextRegistry ==
    \/ add_to_queue(1, "normal")
    \/ \E c \in CallIds : start_call(c)
    \/ \E c \in CallIds : complete_call(1, c)
    \/ \E a \in AgentIds, st \in AgentStatus : update_agent_status(a, st)
    \/ auto_get_available_agents(1)
    \/ auto_get_pending_calls(1)
    \/ auto_assign_agent(1)

SpecRegistry == Init /\ [][NextRegistry]_vars

\* ---- SpecExpiry: heartbeats of every status while the clock moves ----
NextExpiry ==
    \/ Tick
    \/ add_to_queue(1, "normal")
    \/ \E a \in AgentIds, st \in AgentStatus : update_agent_status(a, st)
    \/ auto_get_available_agents(1)
    \/ auto_get_pending_calls(1)
    \/ auto_assign_agent(1)

SpecExpiry == Init /\ [][NextExpiry]_vars

\* ---- SpecOverride: manual assignment beside the automatic one ----
NextOverride ==
    \/ add_to_queue(1, "normal")
    \/ \E c \in CallIds, a \in AgentIds : assign_agent(c, a)
    \/ \E c \in CallIds : start_call(c)
    \/ \E c \in CallIds : complete_call(1, c)
    \/ \E a \in AgentIds : update_agent_status(a, "online")
    \/ auto_get_available_agents(1)
    \/ auto_get_pending_calls(1)
    \/ auto_assign_agent(1)

SpecOverride == Init /\ [][NextOverride]_vars

\* ---- SpecReference: requests that carry unknown verification ids ----
NextReference ==
    \/ add_to_queue(1, "normal")
    \/ \E v \in VerificationIds : add_to_queue_unknown_verification(1, v, "normal")
    \/ \E c \in CallIds : start_call(c)
    \/ update_agent_status(1, "online")
    \/ auto_get_available_agents(1)
    \/ auto_get_pending_calls(1)
    \/ auto_assign_agent(1)

SpecReference == Init /\ [][NextReference]_vars

\* ---- SpecSerial: one request at a time, each handler run to its end ----
\* one agent more than in the other specifications
SerialAgents == 1..(NumAgents + 1)

\* no request handler is between two awaits
Idle == \A p \in Procs : pc[p] = "idle"

NextSerial ==
    \/ Idle /\ Tick
    \/ Idle /\ add_to_queue(1, "normal")
    \/ \E c \in CallIds : Idle /\ start_call(c)
    \/ \E c \in CallIds : Idle /\ CallInProgress(c) /\ complete_call(1, c)
    \/ \E a \in SerialAgents : Idle /\ AgentIdle(a) /\ update_agent_status(a, "online")
    \/ auto_get_available_agents(1)
    \/ auto_get_pending_calls(1)
    \/ auto_assign_agent(1)

SpecSerial == Init /\ [][NextSerial]_vars

\* ======================= properties =======================

\* the priority ranks of the specification: urgent, high, normal, low
PriorityRanks == <<"urgent", "high", "normal", "low">>

Rank(prio) == CHOOSE i \in 1..Len(PriorityRanks) : PriorityRanks[i] = prio

\* call c comes no later than call d in the priority-then-arrival ordering
Before(q, c, d) ==
    \/ Rank(q[c].priority) < Rank(q[d].priority)
    \/ Rank(q[c].priority) = Rank(q[d].priority) /\ q[c].created_at <= q[d].created_at

Range(s) == {s[i] : i \in 1..Len(s)}

Limits == (1..(MaxCalls + 1)) \cup {DefaultLimit}

\* the ValueErrors that report a call in the wrong prior state
InvalidTransition == {"not_pending", "not_assigned"}

\* C1: two concurrent auto_assign_next_call invocations never leave two
\* distinct calls in status assigned with the same agent_id.
C1_NoAgentBoundTwice ==
    \A c, d \in 1..Len(calls) :
        (c # d /\ calls[c].status = "assigned" /\ calls[d].status = "assigned")
        => calls[c].agent_id # calls[d].agent_id

\* C2: whenever auto_assign_next_call binds a call, no other pending call
\* has a higher priority rank, nor equal priority and an earlier creation time.
C2_AutoAssignBindsQueueHead ==
    [][\A p \in Procs :
          (pc[p] = "auto_assign" /\ auto_assign_agent(p)
              /\ assign_agent_ok(calls, l_call[p]))
          => \A d \in PendingIds(calls) \ {l_call[p]} :
                /\ Rank(calls[l_call[p]].priority) <= Rank(calls[d].priority)
                /\ Rank(calls[l_call[p]].priority) = Rank(calls[d].priority)
                      => calls[l_call[p]].created_at <= calls[d].created_at]_vars

\* C3: what get_pending_calls returns holds only pending calls and is sorted
\* by priority rank and, within a priority, by ascending creation time.
C3_ListPendingSorted ==
    \A rows \in PendingRowOrders(calls) : \A limit \in Limits :
        LET r == get_pending_calls(calls, rows, limit)
        IN /\ \A i \in 1..Len(r) : calls[r[i]].status = "pending"
           /\ \A i, j \in 1..Len(r) : i < j => Before(calls, r[i], r[j])

C3_Witness ==
    /\ Len(calls) >= 2
    /\ calls[1].status = "pending" /\ calls[2].status = "pending"
    /\ calls[1].priority = "low" /\ calls[2].priority = "urgent"
    /\ calls[1].created_at < calls[2].created_at
    /\ \A rows \in PendingRowOrders(calls) :
          SubSeq(get_pending_calls(calls, rows, DefaultLimit), 1, 2) = <<2, 1>>

\* C4: for every limit n >= 1, no pending call left out of
\* get_pending_calls(n) has a higher priority than a call that is returned.
C4_ListPendingLimitKeepsHead ==
    \A rows \in PendingRowOrders(calls) : \A limit \in Limits :
        LET r == get_pending_calls(calls, rows, limit)
        IN \A c \in PendingIds(calls) \ Range(r) : \A d \in Range(r) :
              ~ (Rank(calls[c].priority) < Rank(calls[d].priority))

\* C5: every change of a call's status is one of pending->assigned,
\* assigned->in_progress, in_progress->completed, pending->cancelled,
\* assigned->cancelled.
LegalTransitions ==
    {<<"pending", "assigned">>, <<"assigned", "in_progress">>,
     <<"in_progress", "completed">>, <<"pending", "cancelled">>,
     <<"assigned", "cancelled">>}

C5_OnlyLegalTransitions ==
    [][\A c \in 1..Len(calls) :
          calls'[c].status # calls[c].status
          => <<calls[c].status, calls'[c].status>> \in LegalTransitions]_vars

\* C6: complete_call on a call that is not in_progress fails with an invalid
\* transition and changes neither the call nor any agent.
C6_CompleteRejectsNotInProgress ==
    [][\A p \in Procs, c \in CallIds :
          (last'.op = "complete_call" /\ complete_call(p, c) /\ CallExists(calls, c)
              /\ calls[c].status # "in_progress")
          => /\ last'.result \in InvalidTransition
             /\ UNCHANGED <<calls, agents>>]_vars

\* C7: a successful complete_call on a call bound to an agent leaves that
\* agent online with current_call_id null and its daily counter one higher.
C7_CompleteFreesAgent ==
    [][\A p \in Procs, c \in CallIds :
          (last'.op = "complete_call" /\ complete_call(p, c) /\ complete_call_ok(calls, c)
              /\ calls[c].agent_id # NULL /\ AgentExists(agents, calls[c].agent_id))
          => /\ last'.result = "ok"
             /\ agents'[calls[c].agent_id].status = "online"
             /\ agents'[calls[c].agent_id].current_call_id = NULL
             /\ agents'[calls[c].agent_id].total_calls_today
                   = agents[calls[c].agent_id].total_calls_today + 1]_vars

C7_Witness ==
    /\ last = Op("complete_call", "ok")
    /\ \E c \in 1..Len(calls) :
          /\ calls[c].status = "completed"
          /\ calls[c].started_at # NULL
          /\ AgentExists(agents, calls[c].agent_id)
          /\ agents[calls[c].agent_id].status = "online"
          /\ agents[calls[c].agent_id].current_call_id = NULL
          /\ agents[calls[c].agent_id].total_calls_today = 1

\* C8: for every agent record, current_call_id is non-null if and only if
\* the stored status is busy or in_call.
C8_CurrentCallIffBusy ==
    \A a \in DOMAIN agents :
        (agents[a].current_call_id # NULL) <=> (agents[a].status \in {"busy", "in_call"})

\* C9: for every call, assigned_at is set iff the status is assigned,
\* in_progress or completed, and completed_at is set iff it is completed.
C9_TimestampsMatchStatus ==
    \A c \in 1..Len(calls) :
        /\ (calls[c].assigned_at # NULL)
              <=> (calls[c].status \in {"assigned", "in_progress", "completed"})
        /\ (calls[c].completed_at # NULL) <=> (calls[c].status = "completed")

\* C10: assign_agent on a call that is not pending fails with an invalid
\* transition (ValueError, 400) and changes neither the call nor the agent.
C10_AssignRejectsNotPending ==
    [][\A c \in CallIds, a \in AgentIds :
          (last'.op = "assign_agent" /\ CallExists(calls, c)
              /\ calls[c].status # "pending" /\ assign_agent(c, a))
          => /\ last'.result = "not_pending"
             /\ UNCHANGED <<calls, agents>>]_vars

C10_Witness ==
    /\ last = Op("assign_agent", "not_pending")
    /\ \E c \in 1..Len(calls) :
          calls[c].status \in {"assigned", "in_progress", "completed"}

\* C11: assign_agent for an agent that has no availability record fails with
\* an invalid transition and leaves the call pending with no agent_id; no
\* call is left assigned to an agent that has no record.
C11_AssignRejectsUnknownAgent ==
    [][\A c \in CallIds, a \in AgentIds :
          (last'.op = "assign_agent" /\ assign_agent_ok(calls, c)
              /\ ~ AgentExists(agents, a) /\ assign_agent(c, a))
          => /\ last'.result \in InvalidTransition
             /\ calls'[c].status = "pending"
             /\ calls'[c].agent_id = NULL
             /\ \A d \in 1..Len(calls') :
                   calls'[d].status = "assigned"
                   => AgentExists(agents', calls'[d].agent_id)]_vars

\* C12: start_call on an assigned call moves it to in_progress and sets the
\* bound agent's status to in_call; on a call in any other status it fails
\* with an invalid transition and changes neither the call nor any agent.
C12_StartOnlyFromAssigned ==
    [][\A c \in CallIds :
          (last'.op = "start_call" /\ CallExists(calls, c) /\ start_call(c))
          => IF calls[c].status = "assigned"
             THEN /\ last'.result = "ok"
                  /\ calls'[c].status = "in_progress"
                  /\ AgentExists(agents, calls[c].agent_id)
                        => agents'[calls[c].agent_id].status = "in_call"
             ELSE /\ last'.result = "not_assigned"
                  /\ UNCHANGED <<calls, agents>>]_vars

C12_Witness ==
    /\ last = Op("start_call", "ok")
    /\ \E c \in 1..Len(calls) :
          /\ calls[c].status = "in_progress"
          /\ calls[c].started_at = now
          /\ AgentExists(agents, calls[c].agent_id)
          /\ agents[calls[c].agent_id].status = "in_call"
          /\ agents[calls[c].agent_id].current_call_id = c

\* C13: get_available_agents returns exactly the agents whose stored status
\* is online and whose last heartbeat is at most 60 seconds old at the time
\* of the read: no expired agent, and no offline, busy or in_call agent.
C13_ListAvailableOnlineAndFresh ==
    \A a \in AgentIds :
        a \in get_available_agents(agents, now)
        <=> /\ a \in DOMAIN agents
            /\ agents[a].status = "online"
            /\ now - agents[a].last_heartbeat <= LivenessWindow

C13_Witness ==
    \E a \in DOMAIN agents :
        /\ agents[a].status = "online"
        /\ now - agents[a].last_heartbeat > LivenessWindow
        /\ a \notin get_available_agents(agents, now)

\* C14: whenever auto_assign_next_call binds an agent, that agent is at that
\* moment the head of get_available_agents (available, and no available
\* agent has a smaller total_calls_today); when there is no available agent
\* or no pending call it returns None and changes no call and no agent.
C14_AutoAssignBindsAvailableHead ==
    [][\A p \in Procs :
          /\ (pc[p] = "auto_assign" /\ auto_assign_agent(p)
                  /\ last'.result = "ok")
             => l_agent[p] \in AvailableHeads(agents, now)
          /\ (pc[p] = "auto_agents" /\ auto_get_available_agents(p)
                  /\ get_available_agents(agents, now) = {})
             => /\ last' = Op("auto_assign_next_call", "none")
                /\ UNCHANGED <<calls, agents>>
          /\ (pc[p] = "auto_pending" /\ auto_get_pending_calls(p)
                  /\ PendingIds(calls) = {})
             => /\ last' = Op("auto_assign_next_call", "none")
                /\ UNCHANGED <<calls, agents>>]_vars

\* the request of process p ends with this step
HandlerEnds(p) == pc[p] # "idle" /\ pc'[p] = "idle"

C16_NoPendingWithAvailableAfterEnqueue ==
    [][\A p \in Procs :
          (HandlerEnds(p) /\ last.op = "add_to_queue"
              /\ get_available_agents(agents, now) # {})
          => ~ (/\ PendingIds(calls') # {}
                /\ get_available_agents(agents', now') # {})]_vars

\* C16: add_to_queue goes on to auto_assign_next_call once: when the request
\* finishes with nothing interleaved and at least one agent was available,
\* exactly one pending call has been bound to a head of the available
\* agents; further pending calls and available agents may remain.
C16_EnqueueBindsOnePair ==
    [][\A p \in Procs :
          /\ \A prio \in CallPriority :
                (last'.op = "add_to_queue" /\ add_to_queue(p, prio))
                => /\ pc'[p] = "auto_agents"
                   /\ Len(calls') \in PendingIds(calls')
          /\ (HandlerEnds(p) /\ last.op = "add_to_queue"
                  /\ get_available_agents(agents, now) # {})
             => /\ last' = Op("auto_assign_next_call", "ok")
                /\ \E d \in PendingIds(calls) :
                      /\ calls'[d].status = "assigned"
                      /\ calls'[d].agent_id \in AvailableHeads(agents, now)
                      /\ agents'[calls'[d].agent_id].status = "busy"
                      /\ agents'[calls'[d].agent_id].current_call_id = d
                      /\ PendingIds(calls') = PendingIds(calls) \ {d}]_vars

C16_Witness ==
    /\ Idle
    /\ last = Op("auto_assign_next_call", "ok")
    /\ calls[Len(calls)].created_at = now
    /\ calls[Len(calls)].status = "pending"
    /\ \E d \in 1..Len(calls) :
          calls[d].status = "assigned" /\ calls[d].assigned_at = now
    /\ get_available_agents(agents, now) # {}

\* C17: add_to_queue with a verification_id that names no verification
\* fails and creates no queue entry; every call refers to a verification
\* that exists.
C17_EnqueueRejectsUnknownVerification ==
    [][\A p \in Procs, v \in VerificationIds, prio \in CallPriority :
          (last'.op = "add_to_queue"
              /\ add_to_queue_unknown_verification(p, v, prio))
          => /\ last'.result # "ok"
             /\ UNCHANGED calls
             /\ \A c \in 1..Len(calls') :
                   calls'[c].verification_id \in verifications]_vars

\* the responses of a request that failed
Failures == {"not_found", "not_pending", "not_assigned", "error"}

\* the status a call has after the operation
TargetStatus(op) ==
    CASE op = "assign_agent" -> "assigned"
      [] op = "auto_assign_next_call" -> "assigned"
      [] op = "start_call" -> "in_progress"
      [] op = "complete_call" -> "completed"
      [] OTHER -> "none"

C19_HeartbeatUpserts ==
    [][\A a \in AgentIds, st \in AgentStatus :
          (last'.op = "update_agent_status" /\ update_agent_status(a, st))
          => /\ DOMAIN agents' = DOMAIN agents \cup {a}
             /\ agents'[a].status = st
             /\ agents'[a].last_heartbeat = now
             /\ IF AgentExists(agents, a)
                THEN /\ agents'[a].total_calls_today = agents[a].total_calls_today
                     /\ agents'[a].current_call_id = agents[a].current_call_id
                ELSE /\ agents'[a].total_calls_today = 0
                     /\ agents'[a].current_call_id = NULL
             /\ \A b \in DOMAIN agents \ {a} : agents'[b] = agents[b]]_vars

C19_Witness ==
    /\ last = Op("update_agent_status", "ok")
    /\ now > 0
    /\ \E a \in DOMAIN agents :
          /\ agents[a].status = "offline"
          /\ agents[a].last_heartbeat = now
          /\ agents[a].current_call_id # NULL

\* a request that cancels the pending call c exists
CanBeCancelled(c) == ENABLED (Next /\ calls'[c].status = "cancelled")

\* C20: a pending call can be cancelled (some request moves it from pending
\* to cancelled in one step); a cancelled call is never returned by
\* get_pending_calls and never assigned; a call in progress never becomes
\* cancelled.
C20_PendingCallCanBeCancelled ==
    /\ [](\A c \in 1..Len(calls) :
             /\ calls[c].status = "pending" => CanBeCancelled(c)
             /\ calls[c].status = "cancelled" => c \notin PendingIds(calls))
    /\ [][\A c \in 1..Len(calls) :
             /\ calls[c].status = "cancelled" => calls'[c].status = "cancelled"
             /\ calls[c].status = "in_progress" => calls'[c].status # "cancelled"]_vars

\* C21: every change of a session's status is one of pending->active,
\* active->ended, pending->ended; a session that is ended never changes
\* its status again.
SessionTransitions ==
    {<<"pending", "active">>, <<"active", "ended">>, <<"pending", "ended">>}

C21_SessionTransitionsEndedTerminal ==
    [][\A sid \in 1..Len(call_sessions) :
          /\ call_sessions'[sid].status # call_sessions[sid].status
                => <<call_sessions[sid].status, call_sessions'[sid].status>>
                      \in SessionTransitions
          /\ call_sessions[sid].status = "ended"
                => call_sessions'[sid].status = "ended"]_vars

Parties(session) == {session.caller_id, session.callee_id}

\* C22: an offer, answer or ice_candidate sent by a party of a session is
\* delivered to the other party's registered websocket only: never to the
\* sender, never to a third identity, also when the session's callee is its
\* caller.
C22_RelayToCounterpartOnly ==
    [][\A ws \in SocketIds, type \in RelayTypes, sid \in SessionIds :
          (last'.op = type /\ get_call_session(call_sessions, sid)
              /\ websocket_relay(ws, type, sid)
              /\ sockets[ws].user_id \in Parties(call_sessions[sid]))
          => \A d \in delivered' :
                /\ d.to # sockets[ws].user_id
                /\ d.ws # ws
                /\ d.to \in Parties(call_sessions[sid])
                /\ d.ws = active_connections[d.to]]_vars

\* C23: once a session is ended (by reject or by end_call), no offer, answer
\* or ice_candidate that names it is delivered to any websocket.
C23_NoRelayAfterEnded ==
    [][\A ws \in SocketIds, type \in RelayTypes, sid \in SessionIds :
          (last'.op = type /\ get_call_session(call_sessions, sid)
              /\ call_sessions[sid].status = "ended"
              /\ websocket_relay(ws, type, sid))
          => delivered' = {}]_vars

\* the responses of initiate_call that report a party without a connection
\* (400 for the caller, 404 for the callee)
NotOnline == {"caller_not_online", "callee_not_online"}

\* C24: initiate_call fails with not-online whenever the caller or the
\* callee has no registered connection, creating no session and sending no
\* message; a session is only ever created while both of its parties are
\* online.
C24_InitiateNeedsBothOnline ==
    [][/\ \A u, callee \in Users :
             (last'.op = "initiate_call" /\ initiate_call(u, callee)
                 /\ ~ (/\ is_user_online(active_connections, u)
                       /\ is_user_online(active_connections, callee)))
             => /\ last'.result \in NotOnline
                /\ UNCHANGED call_sessions
                /\ delivered' = {}
       /\ call_sessions' # call_sessions /\ Len(call_sessions') # Len(call_sessions)
             => /\ Len(call_sessions') = Len(call_sessions) + 1
                /\ Parties(call_sessions'[Len(call_sessions')])
                      \subseteq DOMAIN active_connections]_vars

C24_Witness ==
    /\ last = Op("initiate_call", "callee_not_online")
    /\ delivered = {}
    /\ call_sessions = << >>
    /\ \E u, callee \in Users :
          /\ is_user_online(active_connections, u)
          /\ ~ is_user_online(active_connections, callee)

\* C25: respond_to_call by anyone but the callee of the session fails as
\* unauthorized (403), leaves the session as it was and notifies nobody.
C25_RespondOnlyByCallee ==
    [][\A u \in Users, sid \in SessionIds, action \in RespondActions :
          (last'.op = "respond_to_call" /\ get_call_session(call_sessions, sid)
              /\ call_sessions[sid].callee_id # u
              /\ respond_to_call(u, sid, action))
          => /\ last'.result = "unauthorized"
             /\ UNCHANGED call_sessions
             /\ delivered' = {}]_vars

C25_Witness ==
    /\ last = Op("respond_to_call", "unauthorized")
    /\ delivered = {}
    /\ \E sid \in 1..Len(call_sessions) : call_sessions[sid].status = "pending"

\* the caller of session sid gets exactly the message type from u, on its
\* registered websocket, when that websocket takes the send
CallerNotified(sid, type, u) ==
    LET caller == call_sessions[sid].caller_id
    IN /\ \A d \in delivered' :
             d = Delivery(active_connections[caller], caller, type, sid, u)
       /\ (is_user_online(active_connections, caller)
              /\ sockets[active_connections[caller]].state = "open")
          => delivered' # {}

\* C26: when the callee responds to a pending session, accept makes it
\* active and sends call_accepted to the caller, reject makes it ended and
\* sends call_rejected to the caller, and any other action fails and leaves
\* the session unchanged.
C26_RespondAcceptReject ==
    [][\A u \in Users, sid \in SessionIds, action \in RespondActions :
          (last'.op = "respond_to_call" /\ get_call_session(call_sessions, sid)
              /\ call_sessions[sid].callee_id = u
              /\ call_sessions[sid].status = "pending"
              /\ respond_to_call(u, sid, action))
          => CASE action = "accept" ->
                    /\ last'.result = "ok"
                    /\ call_sessions'[sid].status = "active"
                    /\ CallerNotified(sid, "call_accepted", u)
               [] action = "reject" ->
                    /\ last'.result = "ok"
                    /\ call_sessions'[sid].status = "ended"
                    /\ CallerNotified(sid, "call_rejected", u)
               [] OTHER ->
                    /\ last'.result = "invalid_action"
                    /\ UNCHANGED call_sessions
                    /\ delivered' = {}]_vars

C26_Witness ==
    /\ last = Op("respond_to_call", "ok")
    /\ \E sid \in 1..Len(call_sessions) :
          /\ call_sessions[sid].status = "active"
          /\ delivered = {Delivery(active_connections[call_sessions[sid].caller_id],
                                   call_sessions[sid].caller_id, "call_accepted", sid,
                                   call_sessions[sid].callee_id)}

\* C27: end_call by the caller or the callee of a pending or active session
\* makes it ended and sends call_ended to the other party, not to the
\* requester; end_call by anyone else fails as unauthorized (403) and
\* leaves the session unchanged.
C27_EndByPartyNotifiesOther ==
    [][\A u \in Users, sid \in SessionIds :
          (last'.op = "end_call" /\ get_call_session(call_sessions, sid)
              /\ end_call(u, sid))
          => IF u \in Parties(call_sessions[sid])
             THEN call_sessions[sid].status \in {"pending", "active"}
                  => /\ last'.result = "ok"
                     /\ call_sessions'[sid].status = "ended"
                     /\ \A d \in delivered' :
                           /\ d.type = "call_ended"
                           /\ d.to \in Parties(call_sessions[sid])
                           /\ d.to # u
             ELSE /\ last'.result = "unauthorized"
                  /\ UNCHANGED call_sessions
                  /\ delivered' = {}]_vars

\* the websocket most recently accepted for user u
LatestSocket(socks, u) ==
    CHOOSE ws \in 1..Len(socks) :
        /\ socks[ws].user_id = u
        /\ \A other \in 1..Len(socks) : socks[other].user_id = u => other <= ws

\* C28: the registry holds one websocket per user id and the last connect
\* wins: a connect makes the user online with the new websocket as its
\* only entry, every registered entry is the websocket most recently
\* accepted for that user, and a message sent to a user is delivered on
\* that websocket and on no earlier one.
C28_LastConnectWins ==
    [][/\ \A u \in Users :
            (last'.op = "connect" /\ websocket_connect(u))
            => /\ is_user_online(active_connections', u)
               /\ active_connections'[u] = Len(sockets')
       /\ \A u \in DOMAIN active_connections' :
            active_connections'[u] = LatestSocket(sockets', u)
       /\ \A d \in delivered' :
            /\ is_user_online(active_connections, d.to)
            /\ d.ws = LatestSocket(sockets, d.to)]_vars

C28_Witness ==
    \E d \in delivered :
        /\ d.ws = active_connections[d.to]
        /\ \E old \in 1..Len(sockets) :
              /\ old < d.ws
              /\ sockets[old].user_id = d.to
              /\ sockets[old].state = "open"

\* C29: a send to a registered user whose websocket does not take it
\* removes the user's entry from the registry, so that the user is not
\* online afterwards.
C29_FailedSendUnregisters ==
    [][\A u, callee \in Users :
          (last'.op = "initiate_call" /\ last'.result = "ok"
              /\ initiate_call(u, callee)
              /\ ~ SendSucceeds(sockets, active_connections[callee]))
          => ~ is_user_online(active_connections', callee)]_vars

\* C30: a broadcast attempts every registered connection and does not fail
\* the request that triggered it: when the broadcast of a handler is over,
\* the handler has not ended in an error and every connection in the
\* registry has been sent the message.
C30_BroadcastReachesEveryChannel ==
    [][\A p \in Procs :
          (pc[p] = "broadcast" /\ pc'[p] # "broadcast")
          => /\ last'.result # "error"
             /\ DOMAIN agent_connections \subseteq bc[p].visited]_vars

\* C31: disconnect is idempotent: the endpoint's disconnect of a user id
\* leaves a registry that a second disconnect of the same id does not
\* change, a disconnect of an id that is not registered changes nothing,
\* and the entry of every other id stays as it was.
C31_DisconnectIdempotent ==
    [][\A ws \in SocketIds :
          (last'.op = "disconnect" /\ websocket_disconnect(ws))
          => LET u == sockets[ws].user_id
             IN /\ ~ is_user_online(active_connections', u)
                /\ disconnect(active_connections', u) = active_connections'
                /\ ~ is_user_online(active_connections, u)
                     => active_connections' = active_connections
                /\ \A x \in DOMAIN active_connections \ {u} :
                      /\ is_user_online(active_connections', x)
                      /\ active_connections'[x] = active_connections[x]]_vars

\* both websockets of one user have been disconnected, the second time with
\* nothing registered for it, and another user is still registered
C31_Witness ==
    /\ last = Op("disconnect", "ok")
    /\ \E a, b \in 1..Len(sockets) :
          /\ a # b
          /\ sockets[a].user_id = sockets[b].user_id
          /\ sockets[a].state = "closed" /\ sockets[b].state = "closed"
          /\ ~ is_user_online(active_connections, sockets[a].user_id)
    /\ active_connections # << >>

\* a call that an agent is serving
LiveStatus == {"assigned", "in_progress"}

\* the live calls whose agent_id is a
LiveCallsOf(q, a) == {c \in 1..Len(q) : q[c].agent_id = a /\ q[c].status \in LiveStatus}

\* C32: in every reachable state no agent is the agent_id of two distinct
\* calls whose status is assigned or in_progress.
C32_AtMostOneLiveCallPerAgent ==
    \A c, d \in 1..Len(calls) :
        (c # d /\ calls[c].status \in LiveStatus /\ calls[d].status \in LiveStatus
            /\ calls[c].agent_id # NULL)
        => calls[c].agent_id # calls[d].agent_id

\* C33: an agent bound to a call that is assigned or in_progress is not
\* among get_available_agents after any step, whatever it has sent as a
\* heartbeat, and auto_assign_next_call never binds such an agent.
C33_BoundAgentNotAvailable ==
    [][/\ \A a \in DOMAIN agents' :
            LiveCallsOf(calls', a) # {} => a \notin get_available_agents(agents', now')
       /\ \A p \in Procs :
            (pc[p] = "auto_assign" /\ auto_assign_agent(p) /\ last'.result = "ok")
            => LiveCallsOf(calls, l_agent[p]) = {}]_vars

\* C34: queue and registry agree: an agent's current_call_id is c exactly
\* when call c has that agent as agent_id and is assigned or in_progress.
C34_QueueAndRegistryAgree ==
    \A a \in DOMAIN agents, c \in 1..Len(calls) :
        (agents[a].current_call_id = c) <=> (c \in LiveCallsOf(calls, a))

\* C35: under weak fairness of every request's steps, a call that is
\* pending while an agent that serves no call is available (online, its
\* heartbeat fresh) eventually leaves pending.
C35_PendingCallEventuallyAssigned ==
    \A c \in CallIds :
        (/\ c \in PendingIds(calls)
         /\ \E a \in get_available_agents(agents, now) : LiveCallsOf(calls, a) = {})
        ~> (c \notin PendingIds(calls))

\* the websocket most recently accepted for user u is still open
LatestSocketOpen(socks, u) ==
    /\ \E ws \in 1..Len(socks) : socks[ws].user_id = u
    /\ socks[LatestSocket(socks, u)].state = "open"

\* C36: a user whose most recent websocket is still open is registered
\* after every step, whatever happens to the websockets it superseded, and
\* initiate_call never answers such a user, as caller or as callee, that it
\* is not online.
C36_SupersededCleanupKeepsBinding ==
    [][/\ \A u \in Users :
            LatestSocketOpen(sockets', u) => is_user_online(active_connections', u)
       /\ \A u, callee \in Users :
            (last'.op = "initiate_call" /\ initiate_call(u, callee))
            => /\ last'.result = "caller_not_online" => ~ LatestSocketOpen(sockets, u)
               /\ last'.result = "callee_not_online"
                     => ~ LatestSocketOpen(sockets, callee)]_vars

\* C37: an offer, answer or ice_candidate that names a session and arrives
\* on the websocket of a user that is neither its caller nor its callee is
\* delivered to nobody.
C37_OutsiderNotRelayed ==
    [][\A ws \in SocketIds, type \in RelayTypes, sid \in SessionIds :
          (last'.op = type /\ get_call_session(call_sessions, sid)
              /\ websocket_relay(ws, type, sid)
              /\ sockets[ws].user_id \notin Parties(call_sessions[sid]))
          => delivered' = {}]_vars

\* the calls bound to agent a that have reached completed
CompletedCallsOf(q, a) ==
    {c \in 1..Len(q) : q[c].agent_id = a /\ q[c].status = "completed"}

\* C38: after every step each agent's total_calls_today is the number of
\* completed calls bound to it; it never decreases, and it grows only by a
\* call of the agent going from in_progress to completed.
C38_CounterCountsCompletedCalls ==
    [][\A a \in DOMAIN agents' :
          /\ agents'[a].total_calls_today = Cardinality(CompletedCallsOf(calls', a))
          /\ a \in DOMAIN agents
             => /\ agents'[a].total_calls_today >= agents[a].total_calls_today
                /\ agents'[a].total_calls_today # agents[a].total_calls_today
                   => \E c \in 1..Len(calls) :
                         /\ calls[c].agent_id = a
                         /\ calls[c].status = "in_progress"
                         /\ calls'[c].status = "completed"]_vars

\* C39: a broadcast whose sends interleave with connects and disconnects
\* of other users goes on without error: every step of it either awaits
\* the next send or ends the loop with every registered connection sent
\* to, and the request goes on to auto_assign_next_call.
C39_BroadcastSurvivesRegistryChange ==
    [][\A p \in Procs :
          (pc[p] = "broadcast" /\ broadcast_next(p))
          => /\ pc'[p] \in {"broadcast", "auto_agents"}
             /\ last'.result # "error"
             /\ pc'[p] = "auto_agents"
                => DOMAIN agent_connections' \subseteq bc[p].visited]_vars

\* the heartbeat of agent a is older than the liveness window at time t
Expired(ag, a, t) == ag[a].last_heartbeat < t - LivenessWindow

\* C40: heartbeat expiry alone changes no stored state: a step in which
\* time passes leaves every agent record and every call as they were, and
\* a call that is assigned or in_progress and bound to an agent whose
\* heartbeat has expired keeps its status and agent_id in every step other
\* than a start_call or a complete_call.
C40_ExpiryChangesNothingStored ==
    [][/\ now' # now => UNCHANGED <<calls, agents>>
       /\ \A c \in 1..Len(calls) :
            (/\ calls[c].status \in LiveStatus
             /\ calls[c].agent_id \in DOMAIN agents
             /\ Expired(agents, calls[c].agent_id, now')
             /\ last'.op \notin {"start_call", "complete_call"})
            => /\ calls'[c].status = calls[c].status
               /\ calls'[c].agent_id = calls[c].agent_id]_vars

\* an agent's heartbeat has expired while it is bound to a live call: its
\* record still says busy with that call, and the call is still assigned
C40_Witness ==
    \E c \in 1..Len(calls) :
        /\ calls[c].status = "assigned"
        /\ calls[c].agent_id \in DOMAIN agents
        /\ Expired(agents, calls[c].agent_id, now)
        /\ agents[calls[c].agent_id].status = "busy"
        /\ agents[calls[c].agent_id].current_call_id = c
====
